---- MODULE Spec2Model ----
(***************************************************************************)
(* Model of crossword/generate.py: the CrosswordCreator constraint solver  *)
(* (node consistency, AC-3, backtracking search with MRV/degree and        *)
(* least-constraining-value ordering).                                     *)
(*                                                                         *)
(* Words are tuples of letters; Python's 0-based word[k] is w[k + 1].      *)
(* Python sets iterate in an arbitrary order: every place where the code   *)
(* iterates a set is a nondeterministic choice of the order.               *)
(***************************************************************************)
EXTENDS Integers, Sequences, FiniteSets, TLC

VARIABLES
    variables,   \* crossword.variables: the slots of the grid
    words,       \* crossword.words: the vocabulary
    domains,     \* self.domains: slot -> set of words
    pc,          \* position of the running call
    q,           \* the worklist of ac3 (a FIFO of arcs)
    ac3ret,      \* what ac3 returned: "pending", "True", "False"
    assignment,  \* the dict passed through backtrack
    stack,       \* the frames of the active backtrack calls, innermost last
    ret,         \* the value a backtrack call has just returned
    result,      \* what solve returned
    exc,         \* the exception that escaped, "none" when there is none
    revised,     \* the arcs ac3 took from the worklist and passed to revise
    lastRevise,  \* the latest direct call of revise and its outcome
    prevRevise   \* the call of revise before it, with no change in between

vars == <<variables, words, domains, pc, q, ac3ret, assignment, stack, ret,
          result, exc, revised, lastRevise, prevRevise>>

----------------------------------------------------------------------------
(* Bounds and input universes *)

MaxSlots == 3
MaxWords == 3

Rows == {0, 1, 2}
Cols == {0, 1, 2}
GridCells == Rows \X Cols

cat == <<"c", "a", "t">>
cot == <<"c", "o", "t">>
tar == <<"t", "a", "r">>
at  == <<"a", "t">>
to  == <<"t", "o">>
WordUniverse == {cat, cot, tar, at, to}

None == << >>

----------------------------------------------------------------------------
(* The grid model (crossword.py, not part of the sources): slots are the   *)
(* maximal runs of blank cells of length > 1, an overlap is the pair of    *)
(* 0-based indices of the shared cell, neighbors are the crossing slots.   *)

Variable(i, j, direction, length) ==
    [i |-> i, j |-> j, direction |-> direction, length |-> length]

Cells(v) ==
    [k \in 1..v.length |->
        <<v.i + (IF v.direction = "down" THEN k - 1 ELSE 0),
          v.j + (IF v.direction = "across" THEN k - 1 ELSE 0)>>]

CellSet(v) == {Cells(v)[k] : k \in 1..v.length}

IndexOf(v, cell) == (CHOOSE k \in 1..v.length : Cells(v)[k] = cell) - 1

SlotsOf(structure) ==
    LET lens == 2..Cardinality(Rows \cup Cols)
        cand == {Variable(c[1], c[2], d, n) :
                    c \in structure, d \in {"across", "down"}, n \in lens}
        before(v) == IF v.direction = "down" THEN <<v.i - 1, v.j>>
                                             ELSE <<v.i, v.j - 1>>
        after(v)  == IF v.direction = "down" THEN <<v.i + v.length, v.j>>
                                             ELSE <<v.i, v.j + v.length>>
    IN {v \in cand : /\ CellSet(v) \subseteq structure
                     /\ before(v) \notin structure
                     /\ after(v) \notin structure}

Overlaps(x, y) ==
    LET common == CellSet(x) \cap CellSet(y)
    IN IF common = {} THEN None
       ELSE LET cell == CHOOSE c \in common : TRUE
            IN <<IndexOf(x, cell), IndexOf(y, cell)>>

Neighbors(var) ==
    {v \in variables : v # var /\ Overlaps(v, var) # None}

----------------------------------------------------------------------------
(* Helpers *)

\* all the orders in which a set can be iterated
RECURSIVE Orders(_)
Orders(S) ==
    IF S = {} THEN {<< >>}
    ELSE UNION {{<<e>> \o rest : rest \in Orders(S \ {e})} : e \in S}

NoCall == [x |-> None, y |-> None, before |-> None, after |-> None,
           outcome |-> "none"]

NoRet == [kind |-> "pending", value |-> None]

----------------------------------------------------------------------------
(* __init__ *)

Init ==
    /\ \E structure \in SUBSET GridCells :
          /\ variables = SlotsOf(structure)
          /\ Cardinality(variables) <= MaxSlots
    /\ \E vocabulary \in SUBSET WordUniverse :
          /\ Cardinality(vocabulary) <= MaxWords
          /\ words = vocabulary
    /\ domains = [var \in variables |-> words]
    /\ pc = "constructed"
    /\ q = << >>
    /\ ac3ret = "pending"
    /\ assignment = << >>
    /\ stack = << >>
    /\ ret = NoRet
    /\ result = NoRet
    /\ exc = "none"
    /\ revised = << >>
    /\ lastRevise = NoCall
    /\ prevRevise = NoCall

----------------------------------------------------------------------------
(* enforce_node_consistency *)

NodeInconsistentLt(word, i) == Len(word) < i.length

\* the test of line 106
NodeInconsistent(word, i) == Len(word) # i.length

NodeConsistentDomainsRebuilt(D) ==
    [i \in DOMAIN D |-> {word \in WordUniverse : ~ NodeInconsistent(word, i)}]

NodeConsistentDomains(D) ==
    [i \in DOMAIN D |->
        LET lst == {word \in D[i] : NodeInconsistent(word, i)}
        IN D[i] \ lst]

EnforceNodeConsistency ==
    /\ pc = "constructed"
    /\ domains' = NodeConsistentDomains(domains)
    /\ pc' = "node_done"
    /\ prevRevise' = NoCall
    /\ lastRevise' = NoCall
    /\ UNCHANGED <<revised, variables, words, q, ac3ret, assignment, stack, ret,
                   result, exc>>

----------------------------------------------------------------------------
(* revise *)

\* word1[overlap[0]] != word2[overlap[1]] reads past the end of a word
IndexFails(word1, word2, overlap) ==
    overlap[1] >= Len(word1) \/ overlap[2] >= Len(word2)

\* the test of line 125
Mismatch(word1, word2, overlap) ==
    word1[overlap[1] + 1] # word2[overlap[2] + 1]

\* The pairs (word1, word2) at which the loops of lines 123-128 stop: the
\* comparison raises IndexError, or the letters differ and line 126 calls
\* self.domains.remove, which a dict does not have (AttributeError).  Every
\* pair met before such a pair falls through the test, so the first such
\* pair in the iteration order ends the call.
StopPairs(x, y, D) ==
    LET overlap == Overlaps(x, y)
    IN {p \in D[x] \X D[y] :
           \/ IndexFails(p[1], p[2], overlap)
           \/ Mismatch(p[1], p[2], overlap)}

\* The outcomes of revise(x, y) on the domains D: what it returns or raises
\* and the domains it leaves.  `revised` is set only after line 126, which
\* raises, so no outcome returns True.
Revise(x, y, D) ==
    LET overlap == Overlaps(x, y)
    IN IF overlap = None
       THEN {[outcome |-> "False", domains |-> D]}
       ELSE IF StopPairs(x, y, D) = {}
            THEN {[outcome |-> "False", domains |-> D]}
            ELSE {[outcome |-> IF IndexFails(p[1], p[2], overlap)
                               THEN "IndexError" ELSE "AttributeError",
                   domains |-> D] : p \in StopPairs(x, y, D)}

\* a direct call of revise(x, y) by a user of the class
ReviseCall ==
    /\ pc \in {"constructed", "node_done"}
    /\ \E x \in variables : \E y \in variables \ {x} :
         \E o \in Revise(x, y, domains) :
            /\ domains' = o.domains
            /\ prevRevise' = lastRevise
            /\ lastRevise' = [x |-> x, y |-> y, before |-> domains,
                              after |-> o.domains, outcome |-> o.outcome]
    /\ UNCHANGED <<revised, variables, words, pc, q, ac3ret, assignment, stack, ret,
                   result, exc>>

----------------------------------------------------------------------------
(* ac3 *)

\* the default worklist of lines 146-149: all ordered pairs of distinct
\* slots, in the order the set of slots iterates
DefaultArcs(order) ==
    LET n == Len(order)
        pairs == [k \in 1..(n * n) |->
                    <<order[((k - 1) \div n) + 1], order[((k - 1) % n) + 1]>>]
    IN SelectSeq(pairs, LAMBDA a : a[1] # a[2])

QEmptyCalled(queue) == Len(queue) = 0

\* line 150 tests `q.empty`, the bound method itself and not its result:
\* a method object is true whatever the queue holds
QEmpty(queue) == TRUE

\* The loop of lines 150-157 on the domains D and the worklist queue, done
\* being the arcs already taken from it: the set of outcomes
\* [outcome, domains, q, revised] of ac3.
RECURSIVE Ac3Loop(_, _, _)
Ac3Loop(D, queue, done) ==
    IF QEmpty(queue)   \* `while not q.empty` is left
    THEN {[outcome |-> "True", domains |-> D, q |-> queue, revised |-> done]}
    ELSE LET arc == Head(queue)
             rest == Tail(queue)
             seen == Append(done, arc)
         IN UNION {
              IF o.outcome \notin {"True", "False"}
              THEN {[outcome |-> o.outcome, domains |-> o.domains, q |-> rest,
                     revised |-> seen]}
              ELSE IF o.outcome = "True"
              THEN IF o.domains[arc[1]] = {}
                   THEN {[outcome |-> "False", domains |-> o.domains,
                          q |-> rest, revised |-> seen]}
                   ELSE UNION {Ac3Loop(o.domains,
                                  rest \o [k \in 1..Len(nb) |-> <<nb[k], arc[1]>>],
                                  seen)
                               : nb \in Orders(Neighbors(arc[1]) \ {arc[2]})}
              ELSE Ac3Loop(o.domains, rest, seen)
              : o \in Revise(arc[1], arc[2], D)}

\* self.ac3() of line 94
Ac3 ==
    /\ pc = "node_done"
    /\ \E order \in Orders(variables) :
         \E o \in Ac3Loop(domains, DefaultArcs(order), << >>) :
            /\ domains' = o.domains
            /\ q' = o.q
            /\ revised' = o.revised
            /\ IF o.outcome \in {"True", "False"}
               THEN /\ ac3ret' = o.outcome
                    /\ pc' = "ac3_done"
                    /\ exc' = exc
               ELSE /\ ac3ret' = ac3ret
                    /\ pc' = "raised"
                    /\ exc' = o.outcome
    /\ UNCHANGED <<variables, words, assignment, stack, ret, result,
                   lastRevise, prevRevise>>

----------------------------------------------------------------------------
(* assignment_complete, consistent *)

\* `assignment.get(i, 0)` is true when i has an entry that is a non-empty word
Assigned(a, i) == i \in DOMAIN a /\ Len(a[i]) # 0

AssignmentComplete(a) == \A i \in variables : Assigned(a, i)

\* lines 175-188: the duplicate test of line 186 comes after the `continue`
\* of line 183, so it is made only for pairs of slots that cross
Consistent(a) ==
    IF \E i \in DOMAIN a : i.length # Len(a[i])
    THEN FALSE
    ELSE \A i \in DOMAIN a : \A j \in DOMAIN a \ {i} :
            LET overlap == Overlaps(i, j)
            IN IF overlap = None
               THEN TRUE
               ELSE /\ a[i][overlap[1] + 1] = a[j][overlap[2] + 1]
                    /\ a[i] # a[j]

----------------------------------------------------------------------------
(* rules_out_values, order_domain_values, select_unassigned_variable *)

RulesOutEq(var, word, i, j) ==
    LET overlap == Overlaps(i, var)
    IN IF j = word THEN 1
       ELSE IF overlap = None THEN 0
       ELSE IF word[overlap[2] + 1] = j[overlap[1] + 1] THEN 1 ELSE 0

\* lines 195-202: what the candidate j of the neighbor i adds to count
RulesOut(var, word, i, j) ==
    LET overlap == Overlaps(i, var)
    IN IF j = word THEN 1
       ELSE IF overlap = None THEN 0
       ELSE IF word[overlap[2] + 1] # j[overlap[1] + 1] THEN 1 ELSE 0

\* the loop of line 194 over the candidates J of the neighbor i
RECURSIVE CountCandidates(_, _, _, _)
CountCandidates(var, word, i, J) ==
    IF J = {} THEN 0
    ELSE LET j == CHOOSE w \in J : TRUE
         IN RulesOut(var, word, i, j) + CountCandidates(var, word, i, J \ {j})

\* lines 191-203: the loop of line 192 over the neighbors, the assigned ones
\* skipped by line 193
RECURSIVE RulesOutValues(_, _, _, _)
RulesOutValues(var, word, neighbors, a) ==
    IF neighbors = {} THEN 0
    ELSE LET i == CHOOSE n \in neighbors : TRUE
         IN (IF ~ Assigned(a, i)
             THEN CountCandidates(var, word, i, domains[i]) ELSE 0)
            + RulesOutValues(var, word, neighbors \ {i}, a)

\* list.sort(key = ...) and sorted(..., key = ...) on a list of tuples, the
\* key being component c: a stable sort
RECURSIVE StableSort(_, _)
StableSort(seq, c) ==
    IF seq = << >> THEN << >>
    ELSE LET init == StableSort(SubSeq(seq, 1, Len(seq) - 1), c)
             x == seq[Len(seq)]
             n == Cardinality({k \in 1..Len(init) : init[k][c] <= x[c]})
         IN SubSeq(init, 1, n) \o <<x>> \o SubSeq(init, n + 1, Len(init))

MinFirst(seq, c) ==
    seq[CHOOSE k \in 1..Len(seq) :
           /\ \A m \in 1..Len(seq) : seq[k][c] <= seq[m][c]
           /\ \A m \in 1..(k - 1) : seq[k][c] < seq[m][c]]

\* max(seq, key = component c): the first element of the highest key
MaxFirst(seq, c) ==
    seq[CHOOSE k \in 1..Len(seq) :
           /\ \A m \in 1..Len(seq) : seq[m][c] <= seq[k][c]
           /\ \A m \in 1..(k - 1) : seq[m][c] < seq[k][c]]

\* line 215 on the list rules_out of the tuples (word, count)
OrderFrom(rules_out) ==
    LET sorted == StableSort(rules_out, 2)
    IN [k \in 1..Len(sorted) |-> sorted[k][1]]

\* the lists order_domain_values can return: rules_out holds the tuples of
\* line 214 in the iteration order of the domain of var
OrderDomainValues(var, a) ==
    LET tuples == {<<i, RulesOutValues(var, i, Neighbors(var), a)>> :
                      i \in domains[var]}
    IN {OrderFrom(rules_out) : rules_out \in Orders(tuples)}

\* lines 230-236 on the list unassigned_variables of the tuples
\* (slot, number of neighbors, domain size)
SelectFrom(listed) ==
    LET unassigned_variables == StableSort(listed, 3)
        n == Cardinality({k \in 1..Len(unassigned_variables) :
                 \A m \in 1..k :
                    unassigned_variables[m][3] = unassigned_variables[1][3]})
        unassigned == SubSeq(unassigned_variables, 1, n)
    IN MaxFirst(unassigned, 2)[1]

\* the slots select_unassigned_variable can return: the list holds the tuples
\* of line 229 in the iteration order of the slots; with every slot assigned
\* the list is empty and line 233 raises IndexError
SelectUnassignedVariable(a) ==
    LET tuples == {<<i, Cardinality(Neighbors(i)), Cardinality(domains[i])>> :
                      i \in {v \in variables : ~ Assigned(a, v)}}
    IN IF tuples = {}
       THEN {}
       ELSE {SelectFrom(listed) : listed \in Orders(tuples)}

----------------------------------------------------------------------------
(* solve, backtrack *)

DelNothing(a, var) == a

DelAll(a, var) == << >>

\* del assignment[start]
Del(a, var) == [i \in DOMAIN a \ {var} |-> a[i]]

Put(a, var, word) == [i \in DOMAIN a \cup {var} |-> IF i = var THEN word ELSE a[i]]

Top == stack[Len(stack)]

Pop == SubSeq(stack, 1, Len(stack) - 1)

NextCandidateStuck == stack

\* the for loop of line 250 moves on to the next value
NextCandidate == [stack EXCEPT ![Len(stack)].k = @ + 1]

\* line 95: solve discards what ac3 returned and calls backtrack(dict())
SolveBacktrack ==
    /\ pc = "ac3_done"
    /\ assignment' = << >>
    /\ q' = << >>
    /\ pc' = "bt_call"
    /\ UNCHANGED <<revised, variables, words, domains, ac3ret, stack, ret, result, exc,
                   lastRevise, prevRevise>>

\* lines 247-250: entry of a call of backtrack
BacktrackCall ==
    /\ pc = "bt_call"
    /\ IF AssignmentComplete(assignment)
       THEN /\ ret' = [kind |-> "assignment", value |-> assignment]
            /\ pc' = "bt_ret"
            /\ UNCHANGED <<stack, exc>>
       ELSE LET selected == SelectUnassignedVariable(assignment)
            IN IF selected = {}
               THEN /\ exc' = "IndexError"
                    /\ pc' = "raised"
                    /\ UNCHANGED <<stack, ret>>
               ELSE \E start \in selected :
                      \E order \in OrderDomainValues(start, assignment) :
                         /\ stack' = Append(stack,
                               [start |-> start, order |-> order,
                                k |-> 1, entry |-> assignment])
                         /\ pc' = "bt_loop"
                         /\ UNCHANGED <<ret, exc>>
    /\ UNCHANGED <<revised, variables, words, domains, q, ac3ret, assignment, result,
                   lastRevise, prevRevise>>

BacktrackAssignPop ==
    /\ pc = "bt_loop"
    /\ Top.k <= Len(Top.order)
    /\ assignment' = Put(assignment, Top.start, Top.order[Top.k])
    /\ domains' = [domains EXCEPT ![Top.start] = @ \ {Top.order[Top.k]}]
    /\ pc' = "bt_check"
    /\ UNCHANGED <<revised, variables, words, q, ac3ret, stack, ret, result,
                   exc, lastRevise, prevRevise>>

\* line 251: the next candidate is put into the assignment
BacktrackAssign ==
    /\ pc = "bt_loop"
    /\ Top.k <= Len(Top.order)
    /\ assignment' = Put(assignment, Top.start, Top.order[Top.k])
    /\ pc' = "bt_check"
    /\ UNCHANGED <<revised, variables, words, domains, q, ac3ret, stack, ret, result,
                   exc, lastRevise, prevRevise>>

\* lines 252-253, 256: recurse when consistent, else undo and go on
BacktrackCheck ==
    /\ pc = "bt_check"
    /\ IF Consistent(assignment)
       THEN /\ pc' = "bt_call"
            /\ UNCHANGED <<assignment, stack>>
       ELSE /\ assignment' = Del(assignment, Top.start)
            /\ stack' = NextCandidate
            /\ pc' = "bt_loop"
    /\ UNCHANGED <<revised, variables, words, domains, q, ac3ret, ret, result, exc,
                   lastRevise, prevRevise>>

\* line 257: the candidates are exhausted
BacktrackExhausted ==
    /\ pc = "bt_loop"
    /\ Top.k > Len(Top.order)
    /\ stack' = Pop
    /\ ret' = [kind |-> "None", value |-> None]
    /\ pc' = "bt_ret"
    /\ UNCHANGED <<revised, variables, words, domains, q, ac3ret, assignment, result,
                   exc, lastRevise, prevRevise>>

\* lines 253-256 in the caller of a call that returned, line 95 in solve
BacktrackReturn ==
    /\ pc = "bt_ret"
    /\ IF stack = << >>
       THEN /\ result' = ret
            /\ pc' = "done"
            /\ UNCHANGED <<assignment, stack>>
       ELSE IF ret.kind # "None"
       THEN /\ stack' = Pop
            /\ pc' = "bt_ret"
            /\ UNCHANGED <<assignment, result>>
       ELSE /\ assignment' = Del(assignment, Top.start)
            /\ stack' = NextCandidate
            /\ pc' = "bt_loop"
            /\ UNCHANGED result
    /\ UNCHANGED <<revised, variables, words, domains, q, ac3ret, ret, exc,
                   lastRevise, prevRevise>>

----------------------------------------------------------------------------
(* Specifications *)

\* one run of solve on a freshly constructed CrosswordCreator
Next ==
    \/ EnforceNodeConsistency
    \/ Ac3
    \/ SolveBacktrack
    \/ BacktrackCall
    \/ BacktrackAssign
    \/ BacktrackCheck
    \/ BacktrackExhausted
    \/ BacktrackReturn

Spec == Init /\ [][Next]_vars

\* direct calls of revise, before or after enforce_node_consistency
NextRevise ==
    \/ EnforceNodeConsistency
    \/ ReviseCall

SpecRevise == Init /\ [][NextRevise]_vars

----------------------------------------------------------------------------
(* The definitions of section 3 of the specification *)

Complete(a) == DOMAIN a = variables

\* length match, overlap agreement, no word used twice
ConsistentAssignment(a) ==
    /\ \A i \in DOMAIN a : Len(a[i]) = i.length
    /\ \A i \in DOMAIN a : \A j \in DOMAIN a \ {i} :
          /\ a[i] # a[j]
          /\ Overlaps(i, j) # None =>
                a[i][Overlaps(i, j)[1] + 1] = a[j][Overlaps(i, j)[2] + 1]

Solutions == {a \in [variables -> words] : ConsistentAssignment(a)}

\* w of X has a partner v of Y at the overlap
Compatible(w, v, overlap) ==
    /\ overlap[1] < Len(w)
    /\ overlap[2] < Len(v)
    /\ w[overlap[1] + 1] = v[overlap[2] + 1]

Supported(w, x, y, D) ==
    \E v \in D[y] : Compatible(w, v, Overlaps(x, y))

----------------------------------------------------------------------------
(* Claims *)

\* C1: every assignment solve returns is complete and consistent: each slot
\* has a word of its length, crossing slots agree on the shared letter and
\* no two slots, crossing or not, hold the same word.
C1_ReturnedAssignmentIsSolution ==
    result.kind = "assignment" =>
        Complete(result.value) /\ ConsistentAssignment(result.value)

\* C2: when no complete consistent assignment exists, solve returns None.
C2_NoSolutionReturnsNone ==
    (pc = "done" /\ Solutions = {}) => result.kind = "None"

\* C3: when a complete consistent assignment exists, solve returns one and
\* never None.
C3_SolutionIsFound ==
    (pc = "done" /\ Solutions # {}) =>
        result.kind = "assignment" /\ result.value \in Solutions

\* C4: after ac3 returned True, every word of X's domain has a compatible
\* word in Y's domain, for every ordered pair (X, Y) that overlaps.
C4_ArcConsistentAfterAc3 ==
    ac3ret = "True" =>
        \A x \in variables : \A y \in variables \ {x} :
            Overlaps(x, y) # None =>
                \A w \in domains[x] : Supported(w, x, y, domains)

\* C5: revise(X, Y) removes from X's domain exactly the words without a
\* compatible word in Y's domain and returns True iff it removed a word;
\* without an overlap it returns False and removes nothing.
C5_ReviseRemovesUnsupported ==
    lastRevise.outcome # "none" =>
        LET x == lastRevise.x
            y == lastRevise.y
            before == lastRevise.before
            after == lastRevise.after
        IN IF Overlaps(x, y) = None
           THEN lastRevise.outcome = "False" /\ after = before
           ELSE /\ after = [before EXCEPT
                              ![x] = {w \in @ : Supported(w, x, y, before)}]
                /\ lastRevise.outcome \in {"True", "False"}
                /\ lastRevise.outcome = "True" <=> after[x] # before[x]

\* C6: a second revise(X, Y) right after a first one, with no change of the
\* domains in between, returns False.
C6_SecondReviseReturnsFalse ==
    (/\ prevRevise.outcome # "none"
     /\ prevRevise.x = lastRevise.x
     /\ prevRevise.y = lastRevise.y
     /\ lastRevise.before = prevRevise.after) =>
        lastRevise.outcome = "False"

\* C7: after enforce_node_consistency every domain holds exactly the words
\* of the vocabulary whose length is the slot's length.
C7_NodeConsistent ==
    pc # "constructed" =>
        \A i \in variables :
            domains[i] = {w \in words : Len(w) = i.length}

\* node consistency has removed a word from a domain and kept another one
C7_Witness ==
    /\ pc = "node_done"
    /\ \E i \in variables : domains[i] # {} /\ domains[i] # words

\* C8: when ac3 reports failure (a domain is empty), solve returns None at
\* once and backtrack is never called.
C8_NoSearchAfterAc3Failure ==
    (\/ ac3ret = "False"
     \/ ac3ret # "pending" /\ \E i \in variables : domains[i] = {}) =>
        /\ pc \notin {"bt_call", "bt_loop", "bt_check", "bt_ret"}
        /\ stack = << >>

\* C9: ac3 returns False when a domain ends up empty, and True only with
\* the worklist emptied and no domain empty.
C9_Ac3ReturnValue ==
    pc = "ac3_done" =>
        /\ (\E i \in variables : domains[i] = {}) => ac3ret = "False"
        /\ ac3ret = "True" =>
              q = << >> /\ \A i \in variables : domains[i] # {}

\* C10: solve never raises: no step reaches an error state and solve ends
\* with a complete assignment or None.
C10_SolveNeverRaises ==
    /\ exc = "none"
    /\ pc # "raised"
    /\ pc = "done" =>
          \/ result.kind = "None"
          \/ result.kind = "assignment" /\ Complete(result.value)

\* solve returned None on a grid with a slot no word fits and with two
\* slots that do not cross
C10_Witness ==
    /\ pc = "done"
    /\ result.kind = "None"
    /\ exc = "none"
    /\ \E i \in variables : \A w \in words : Len(w) # i.length
    /\ \E i \in variables : \E j \in variables \ {i} : Overlaps(i, j) = None

\* C11: ac3 terminates with the worklist empty or a domain empty, after
\* finitely many revise calls.
C11_Ac3EndsWithEmptyWorklist ==
    pc = "ac3_done" =>
        \/ q = << >>
        \/ \E i \in variables : domains[i] = {}

\* C12: in every state of a solve each domain is a subset of the vocabulary,
\* and no step adds a word to a domain.
C12_DomainsOnlyShrink ==
    /\ [](\A i \in variables : domains[i] \subseteq words)
    /\ [][\A i \in variables : domains'[i] \subseteq domains[i]]_vars

\* node consistency and ac3 have run and a domain has lost a word
C12_Witness ==
    /\ pc = "ac3_done"
    /\ \E i \in variables : domains[i] # words /\ domains[i] # {}

\* C13: consistent(assignment) returns True exactly when every assigned word
\* has its slot's length, crossing assigned slots agree on the shared letter
\* and no two assigned slots, crossing or not, hold the same word.
C13_ConsistentIffThreeConditions ==
    pc = "bt_check" =>
        (Consistent(assignment) <=> ConsistentAssignment(assignment))

\* C14: when a backtrack call returns None, the assignment is exactly the
\* mapping it was when the call was entered.
C14_FailureRestoresAssignment ==
    (pc = "bt_loop" /\ Top.k > Len(Top.order)) => assignment = Top.entry

\* a call entered with earlier entries has tried candidates and is about to
\* return None
C14_Witness ==
    /\ pc = "bt_loop"
    /\ Top.k > Len(Top.order)
    /\ Len(Top.order) >= 2
    /\ Top.entry # << >>

\* C15 as stated: on every exit of a backtrack call, success included, the
\* entry the call added has been removed from the assignment.
C15_EntryRemovedOnEveryExit ==
    [][Len(stack') < Len(stack) => Top.start \notin DOMAIN assignment']_vars

\* C15 as amended: a call that returns None leaves without its entry, a call
\* that returns an assignment leaves its entry in place, and every removal
\* takes out exactly the entry of the innermost active call (LIFO).
C15_ExitPaths ==
    [][/\ (Len(stack') < Len(stack) /\ ret'.kind = "None") =>
              Top.start \notin DOMAIN assignment'
       /\ (Len(stack') < Len(stack) /\ ret'.kind # "None") =>
              (Top.start \in DOMAIN assignment' /\ assignment' = assignment)
       /\ DOMAIN assignment' # DOMAIN assignment =>
              \/ DOMAIN assignment' = DOMAIN assignment \cup {Top.start}
              \/ /\ DOMAIN assignment \ DOMAIN assignment' = {Top.start}
                 /\ DOMAIN assignment' \subseteq DOMAIN assignment
                 /\ \A i \in DOMAIN assignment' : assignment'[i] = assignment[i]
      ]_vars

\* a nested call is returning the found assignment to a caller that had
\* already undone an earlier candidate
C15_Witness ==
    /\ pc = "bt_ret"
    /\ ret.kind = "assignment"
    /\ Len(stack) >= 2
    /\ Top.k > 1

\* C16: from the first call of backtrack until solve returns, no step of
\* the search changes a domain.
C16_SearchLeavesDomains ==
    [][(pc \in {"ac3_done", "bt_call", "bt_loop", "bt_check", "bt_ret"}) =>
           (domains' = domains)]_vars

\* a search over several slots and several candidates has ended
C16_Witness ==
    /\ pc = "done"
    /\ result.kind = "assignment"
    /\ Cardinality(variables) >= 2
    /\ \E i \in variables : Cardinality(domains[i]) >= 2

\* the call of backtrack on top of the stack has just got its slot from
\* select_unassigned_variable and its list from order_domain_values
JustSelected == pc = "bt_loop" /\ Top.k = 1

\* C17: the slot select_unassigned_variable returns is not in the
\* assignment, has a domain of minimal size among the unassigned slots and has
\* the most neighbors among the unassigned slots of that minimal size.
C17_SelectMrvThenDegree ==
    JustSelected =>
        LET start == Top.start
            open == variables \ DOMAIN assignment
            size(i) == Cardinality(domains[i])
            degree(i) == Cardinality({j \in variables \ {i} :
                                         CellSet(i) \cap CellSet(j) # {}})
        IN /\ start \in open
           /\ \A i \in open : size(start) <= size(i)
           /\ \A i \in open : size(i) = size(start) => degree(i) <= degree(start)

\* a slot was selected against a slot of a larger domain and against a slot
\* of the same domain size with fewer neighbors
C17_Witness ==
    /\ JustSelected
    /\ \E i \in variables \ DOMAIN assignment :
          Cardinality(domains[i]) > Cardinality(domains[Top.start])
    /\ \E i \in variables \ (DOMAIN assignment \cup {Top.start}) :
          /\ Cardinality(domains[i]) = Cardinality(domains[Top.start])
          /\ Cardinality(Neighbors(i)) < Cardinality(Neighbors(Top.start))

\* the rule-out count of a word of var: the pairs (neighbor, candidate) over
\* the unassigned neighbors whose candidate is the word itself or differs
\* from it at the overlap
RuleOutCount(var, word, a) ==
    Cardinality({p \in (Neighbors(var) \ DOMAIN a) \X words :
        /\ p[2] \in domains[p[1]]
        /\ \/ p[2] = word
           \/ word[Overlaps(var, p[1])[1] + 1]
                 # p[2][Overlaps(var, p[1])[2] + 1]})

\* C18: order_domain_values returns every word of the domain exactly once,
\* in ascending order of rule-out count, assigned neighbors counting nothing.
C18_OrderByRuleOutCount ==
    JustSelected =>
        LET var == Top.start
            order == Top.order
        IN /\ Len(order) = Cardinality(domains[var])
           /\ {order[m] : m \in 1..Len(order)} = domains[var]
           /\ \A m \in 1..(Len(order) - 1) :
                 RuleOutCount(var, order[m], assignment)
                    <= RuleOutCount(var, order[m + 1], assignment)

\* a list was ordered, for a slot with an assigned and an unassigned
\* neighbor, whose first and last words differ in rule-out count
C18_Witness ==
    /\ JustSelected
    /\ Len(Top.order) >= 2
    /\ RuleOutCount(Top.start, Top.order[1], assignment)
          < RuleOutCount(Top.start, Top.order[Len(Top.order)], assignment)
    /\ Neighbors(Top.start) \cap DOMAIN assignment # {}
    /\ Neighbors(Top.start) \ DOMAIN assignment # {}

\* C19: unless propagation failed, every arc placed on the worklist of ac3 is
\* removed from it and revised (and a revision that shrinks X re-enqueues
\* the arcs (Z, X) of the other neighbors Z).
C19_EveryArcRevised ==
    (pc = "ac3_done" /\ ac3ret # "False") =>
        \A x \in variables : \A y \in variables \ {x} :
            \E k \in 1..Len(revised) : revised[k] = <<x, y>>

\* The work a search still has to do, as a natural number.  The digits, in
\* base Cardinality(words) + 2, are the candidates each active call has left
\* (a caller waiting for a call that returned None has already spent its
\* current candidate), a call not yet made counting as a full digit, under a
\* leading digit for the call made by solve; the last digit orders the steps
\* within one candidate.  Once an assignment is found the work left is the
\* number of calls to return from.
SearchBound ==
    LET n == Cardinality(variables)
        base == Cardinality(words) + 2
        pow[e \in 0..n] == IF e = 0 THEN 1 ELSE base * pow[e - 1]
        pending == IF pc = "bt_ret" /\ ret.kind = "None" THEN 1 ELSE 0
        digit(l) ==
            IF l > Len(stack) THEN base - 1
            ELSE Len(stack[l].order) + 1 - stack[l].k
                    - (IF l = Len(stack) THEN pending ELSE 0)
        sum[l \in 0..n] == IF l = 0 THEN 0 ELSE sum[l - 1] + digit(l) * pow[n - l]
        outer == IF stack = << >> /\ pc = "bt_ret" THEN 0 ELSE pow[n]
        phase == CASE pc = "bt_ret" -> 3
                   [] pc = "bt_loop" -> 2
                   [] pc = "bt_check" -> 1
                   [] OTHER -> 0
    IN IF pc = "done" THEN 0
       ELSE IF ret.kind = "assignment" THEN Len(stack) + 1
       ELSE n + 2 + 4 * (outer + sum[n]) + phase

\* C20: the backtracking search terminates: every step of it is followed by
\* a next one until solve has the result, each step lessens the work left,
\* each recursive call is entered with one more assigned slot and each call
\* goes through its candidate list once; the result is an assignment or None.
C20_BacktrackTerminates ==
    /\ [](/\ pc \in {"bt_loop", "bt_check"} => stack # << >>
          /\ (pc = "bt_call" /\ ~ AssignmentComplete(assignment)) =>
                \E start \in SelectUnassignedVariable(assignment) :
                    OrderDomainValues(start, assignment) # {}
          /\ pc = "bt_ret" => ret.kind \in {"assignment", "None"}
          /\ pc = "done" => result.kind \in {"assignment", "None"}
          /\ pc # "raised"
          /\ \A k \in 1..Len(stack) :
                /\ Cardinality(DOMAIN stack[k].entry) = k - 1
                /\ stack[k].k <= Len(stack[k].order) + 1)
    /\ [][(pc \in {"bt_call", "bt_loop", "bt_check", "bt_ret"}) =>
             (SearchBound' < SearchBound /\ SearchBound' >= 0)]_vars

\* a search that went three calls deep over several candidates has returned
\* None
C20_Witness ==
    /\ pc = "done"
    /\ result.kind = "None"
    /\ Cardinality(variables) >= 3
    /\ \A i \in variables : Cardinality(domains[i]) >= 2

====
